---- MODULE Spec2Model ----
(***************************************************************************)
(* Model of src/app.py: a Flask membership application over one sqlite     *)
(* table, members(iid, username, email, password, phone, birthdate).       *)
(*                                                                         *)
(* Every request is served by a worker that opens its own connection and   *)
(* runs the handler's SQL statements one after another.  One action of the *)
(* model is one SQL statement together with the Python code that follows   *)
(* it up to the next statement (or up to the handler's return), so that    *)
(* the statements of concurrent requests interleave freely.  A write and   *)
(* the conn.commit() that follows it are one step: between the two the     *)
(* writer holds sqlite's write lock and no other connection sees the row,  *)
(* so no other statement can tell the difference.                          *)
(*                                                                         *)
(* Text values are sequences of one-character strings, so that str.strip() *)
(* is computed and not assumed.                                            *)
(***************************************************************************)
EXTENDS Naturals, Sequences, FiniteSets

\* members  the rows of the members table (CREATE TABLE, lines 23-32)
\* seq      the largest iid handed out so far (AUTOINCREMENT, line 25)
\* pc       per worker, the statement its handler executes next
\* req      per worker, the handler's locals: the stripped form fields and
\*          the iid of the path
\* conn     per worker, whether the connection it opened is still open
\* resp     per worker, what the handler returned
\* lastReg  history of the last registration, see below
VARIABLES members, seq, pc, req, conn, resp, lastReg

vars == <<members, seq, pc, req, conn, resp, lastReg>>

(* ------------------------------ bounds --------------------------------- *)

\* Number of rows ever inserted (the largest iid the table hands out).
MaxId == 2

\* The worker threads serving requests.
Workers == {"w1", "w2"}

\* Raw form values, before .strip(); <<>> is a missing or empty field.
RawUsernames == {<<" ">>, <<" ", "a", " ">>, <<"b">>}
RawEmails == {<<>>, <<"x", " ">>, <<"y">>}
RawPasswords == {<<" ">>, <<" ", "p">>, <<"q">>}

\* The password, phone and birthdate fields of a submitted form: each field
\* takes an empty and a non-empty value, the three are not varied
\* independently.
RawProfiles ==
    {[password |-> <<" ">>, phone |-> <<" ">>, birthdate |-> <<>>],
     [password |-> <<" ", "p">>, phone |-> <<>>, birthdate |-> <<" ", "d">>],
     [password |-> <<"q">>, phone |-> <<"1", " ">>, birthdate |-> <<>>]}
Methods == {"GET", "POST"}
Ids == 1..MaxId

(* ------------------------------ strings -------------------------------- *)

Whitespace == {" "}

RECURSIVE lstrip(_)
lstrip(s) ==
    IF s # <<>> /\ Head(s) \in Whitespace THEN lstrip(Tail(s)) ELSE s

RECURSIVE rstrip(_)
rstrip(s) ==
    IF s # <<>> /\ s[Len(s)] \in Whitespace
    THEN rstrip(SubSeq(s, 1, Len(s) - 1))
    ELSE s

\* str.strip(): leading and trailing whitespace removed.
strip(s) == rstrip(lstrip(s))

(* ------------------------------ messages ------------------------------- *)

\* The message literals of the handlers, in English.
MsgRegisterMissing == "enter username, email and password"
MsgUsernameExists == "username already exists"
MsgEmailInUse == "email already in use"
MsgLoginMissing == "enter email and password"
MsgBadCredentials == "incorrect email or password"
MsgNoUser == "user does not exist"

(* ------------------------------ the store ------------------------------ *)

NoRow ==
    [iid |-> 0, username |-> <<>>, email |-> <<>>, password |-> <<>>,
     phone |-> <<>>, birthdate |-> <<>>]

\* Mutant of UniqueViolation: the email column is not UNIQUE.
UniqueViolation_UsernameOnly(rows, row) ==
    \E m \in rows : m.iid # row.iid /\ m.username = row.username

\* The UNIQUE constraints of the table: would `row` collide with a row of
\* `rows` other than itself on username or on email?
UniqueViolation(rows, row) ==
    \E m \in rows :
        /\ m.iid # row.iid
        /\ (m.username = row.username \/ m.email = row.email)

\* Mutant of SelectByUsername: the pre-check compares the wrong column.
SelectByUsername_WrongColumn(rows, username) ==
    {m \in rows : m.email = username}

\* SELECT iid FROM members WHERE username = ?
SelectByUsername(rows, username) == {m \in rows : m.username = username}

\* Mutant of SelectByCredentials: the password is not compared.
SelectByCredentials_EmailOnly(rows, email, password) ==
    {m \in rows : m.email = email}

\* SELECT * FROM members WHERE email = ? AND password = ?
SelectByCredentials(rows, email, password) ==
    {m \in rows : m.email = email /\ m.password = password}

\* SELECT * FROM members WHERE iid = ?
SelectById(rows, iid) == {m \in rows : m.iid = iid}

\* Mutant of SelectEmailUsedByOther: the member's own row is not excluded.
SelectEmailUsedByOther_AnyRow(rows, email, iid) ==
    {m \in rows : m.email = email}

\* SELECT 1 FROM members WHERE email = ? AND iid != ?
SelectEmailUsedByOther(rows, email, iid) ==
    {m \in rows : m.email = email /\ m.iid # iid}

\* cursor.fetchone(): the first row, or None (NoRow).
fetchone(rows) == IF rows = {} THEN NoRow ELSE CHOOSE m \in rows : TRUE

\* Mutant of Insert: no AUTOINCREMENT, the new iid is one more than the
\* largest iid stored, so the iid of a deleted member is handed out again.
Insert_ReuseId(rows, last, username, email, password, phone, birthdate) ==
    LET top == IF rows = {} THEN 0
               ELSE CHOOSE i \in {m.iid : m \in rows} :
                        \A m \in rows : m.iid <= i
        row == [iid |-> top + 1, username |-> username, email |-> email,
                password |-> password, phone |-> phone,
                birthdate |-> birthdate]
    IN  IF UniqueViolation(rows, row)
        THEN [ok |-> FALSE, rows |-> rows, last |-> last]
        ELSE [ok |-> TRUE, rows |-> rows \cup {row}, last |-> top + 1]

\* INSERT INTO members (...) VALUES (...); commit.  AUTOINCREMENT: the new
\* iid is one more than the largest iid ever handed out.  A UNIQUE
\* violation raises sqlite3.IntegrityError and changes nothing.
Insert(rows, last, username, email, password, phone, birthdate) ==
    LET row == [iid |-> last + 1, username |-> username, email |-> email,
                password |-> password, phone |-> phone,
                birthdate |-> birthdate]
    IN  IF UniqueViolation(rows, row)
        THEN [ok |-> FALSE, rows |-> rows, last |-> last]
        ELSE [ok |-> TRUE, rows |-> rows \cup {row}, last |-> last + 1]

\* UPDATE members SET email, password, phone, birthdate WHERE iid = ?;
\* commit.  No row with that iid: nothing is updated and nothing is raised.
Update(rows, iid, email, password, phone, birthdate) ==
    LET new(m) == [m EXCEPT !.email = email, !.password = password,
                            !.phone = phone, !.birthdate = birthdate]
        hit == SelectById(rows, iid)
    IN  IF \E m \in hit : UniqueViolation(rows, new(m))
        THEN [ok |-> FALSE, rows |-> rows]
        ELSE [ok |-> TRUE,
              rows |-> (rows \ hit) \cup {new(m) : m \in hit}]

\* Mutant of Delete: the WHERE clause is missing.
Delete_AllRows(rows, iid) == {}

\* DELETE FROM members WHERE iid = ?; commit.
Delete(rows, iid) == {m \in rows : m.iid # iid}

(* ------------------------------ responses ------------------------------ *)

NoResp ==
    [kind |-> "none", view |-> "", message |-> "", username |-> <<>>,
     iid |-> 0, user |-> NoRow]

\* redirect(url_for('error', message=...))
RedirectError(msg) ==
    [NoResp EXCEPT !.kind = "redirect", !.view = "error", !.message = msg]

\* redirect(url_for(view)) and redirect(url_for('welcome', iid=iid))
Redirect(view, iid) ==
    [NoResp EXCEPT !.kind = "redirect", !.view = view, !.iid = iid]

\* render_template('error.html', error_message=...)
RenderError(msg) ==
    [NoResp EXCEPT !.kind = "render", !.view = "error.html", !.message = msg]

\* render_template('welcome.html', username=..., iid=...)
RenderWelcome(user) ==
    [NoResp EXCEPT !.kind = "render", !.view = "welcome.html",
                   !.username = user.username, !.iid = user.iid]

\* render_template of a form: register.html, login.html, edit_profile.html
RenderForm(view, user) ==
    [NoResp EXCEPT !.kind = "render", !.view = view, !.user = user]

\* An exception no handler code catches: the request ends with a server
\* error.
Unhandled == [NoResp EXCEPT !.kind = "exception", !.view = "IntegrityError"]

(* ------------------------------ requests ------------------------------- *)

NoReq ==
    [handler |-> "none", method |-> "GET", iid |-> 0, username |-> <<>>,
     email |-> <<>>, password |-> <<>>, phone |-> <<>>, birthdate |-> <<>>]

Init ==
    /\ members = {}
    /\ seq = 0
    /\ pc = [w \in Workers |-> "idle"]
    /\ req = [w \in Workers |-> NoReq]
    /\ conn = [w \in Workers |-> FALSE]
    /\ resp = [w \in Workers |-> NoResp]
    /\ lastReg = NoRow

\* The handler of worker w returns r, with its connection open or closed.
\* q is what the state keeps of the request: the submitted form when the
\* handler rejects it before any statement and for a login, only the
\* handler's name otherwise (Ended).
Return(w, q, r, open) ==
    /\ pc' = [pc EXCEPT ![w] = "done"]
    /\ req' = [req EXCEPT ![w] = q]
    /\ resp' = [resp EXCEPT ![w] = r]
    /\ conn' = [conn EXCEPT ![w] = open]

\* The handler of worker w goes on to its next statement.
Goto(w, label) ==
    /\ pc' = [pc EXCEPT ![w] = label]
    /\ UNCHANGED <<req, resp, conn>>

Ended(h) == [NoReq EXCEPT !.handler = h]

\* lastReg is a history variable: the row the last registration inserted,
\* for as long as every request taken since is a login and no UPDATE or
\* DELETE has named its iid; NoRow otherwise.

\* Registrations that may still insert a row.
Inserting == {w \in Workers : pc[w] \in {"reg_select", "reg_insert"}}

(* ------------------------------ register ------------------------------- *)

\* register(), up to the connection: GET renders the form; POST strips the
\* fields and rejects an empty username, email or password.
BeginRegister(w) ==
    /\ pc[w] = "idle"
    /\ \E method \in Methods, u \in RawUsernames, e \in RawEmails,
          f \in RawProfiles :
        LET username == strip(u)
            email == strip(e)
            password == strip(f.password)
            phone == strip(f.phone)
            birthdate == strip(f.birthdate)
            form == [handler |-> "register", method |-> "POST",
                     iid |-> 0, username |-> username, email |-> email,
                     password |-> password, phone |-> phone,
                     birthdate |-> birthdate]
        IN  IF method = "GET"
            THEN Return(w, Ended("register"),
                        RenderForm("register.html", NoRow), FALSE)
            ELSE IF username = <<>> \/ email = <<>> \/ password = <<>>
            THEN Return(w, form, RedirectError(MsgRegisterMissing), FALSE)
            ELSE /\ seq + Cardinality(Inserting) < MaxId
                 /\ req' = [req EXCEPT ![w] = form]
                 /\ pc' = [pc EXCEPT ![w] = "reg_select"]
                 /\ conn' = [conn EXCEPT ![w] = TRUE]
                 /\ UNCHANGED resp
    /\ lastReg' = NoRow
    /\ UNCHANGED <<members, seq>>

\* The username pre-check of register().
RegSelect(w) ==
    /\ pc[w] = "reg_select"
    /\ IF fetchone(SelectByUsername(members, req[w].username)) # NoRow
       THEN Return(w, Ended("register"), RedirectError(MsgUsernameExists),
                   FALSE)
       ELSE Goto(w, "reg_insert")
    /\ UNCHANGED <<members, seq, lastReg>>

\* The INSERT of register(), its commit and its except clause.
RegInsert(w) ==
    /\ pc[w] = "reg_insert"
    /\ LET r == Insert(members, seq, req[w].username, req[w].email,
                       req[w].password, req[w].phone, req[w].birthdate)
       IN  /\ members' = r.rows
           /\ seq' = r.last
           /\ IF r.ok
              THEN /\ Return(w, Ended("register"), Redirect("login", 0), FALSE)
                   /\ lastReg' = fetchone(SelectById(r.rows, r.last))
              ELSE /\ Return(w, Ended("register"), RedirectError(MsgEmailInUse),
                             FALSE)
                   /\ UNCHANGED lastReg

(* ------------------------------- login --------------------------------- *)

\* login(), up to the connection.
BeginLogin(w) ==
    /\ pc[w] = "idle"
    /\ \E method \in Methods, e \in RawEmails, p \in RawPasswords :
        LET email == strip(e)
            password == strip(p)
            form == [NoReq EXCEPT !.handler = "login", !.method = "POST",
                                  !.email = email, !.password = password]
        IN  IF method = "GET"
            THEN Return(w, Ended("login"), RenderForm("login.html", NoRow),
                        FALSE)
            ELSE IF email = <<>> \/ password = <<>>
            THEN Return(w, form, RedirectError(MsgLoginMissing), FALSE)
            ELSE /\ req' = [req EXCEPT ![w] = form]
                 /\ pc' = [pc EXCEPT ![w] = "login_select"]
                 /\ conn' = [conn EXCEPT ![w] = TRUE]
                 /\ UNCHANGED resp
    /\ UNCHANGED <<members, seq, lastReg>>

\* The credentials lookup of login() and its answer.
LoginSelect(w) ==
    /\ pc[w] = "login_select"
    /\ LET user == fetchone(SelectByCredentials(members, req[w].email,
                                                req[w].password))
       IN  IF user # NoRow
           THEN Return(w, req[w], RenderWelcome(user), FALSE)
           ELSE Return(w, req[w], RedirectError(MsgBadCredentials), FALSE)
    /\ UNCHANGED <<members, seq, lastReg>>

(* ------------------------------ welcome -------------------------------- *)

BeginWelcome(w) ==
    /\ pc[w] = "idle"
    /\ \E iid \in Ids :
        req' = [req EXCEPT ![w] =
                   [NoReq EXCEPT !.handler = "welcome", !.iid = iid]]
    /\ pc' = [pc EXCEPT ![w] = "welcome_select"]
    /\ conn' = [conn EXCEPT ![w] = TRUE]
    /\ lastReg' = NoRow
    /\ UNCHANGED <<members, seq, resp>>

WelcomeSelect(w) ==
    /\ pc[w] = "welcome_select"
    /\ LET user == fetchone(SelectById(members, req[w].iid))
       IN  IF user = NoRow
           THEN Return(w, Ended("welcome"), RenderError(MsgNoUser), FALSE)
           ELSE Return(w, Ended("welcome"), RenderWelcome(user), FALSE)
    /\ UNCHANGED <<members, seq, lastReg>>

(* ---------------------------- edit_profile ----------------------------- *)

\* edit_profile() opens its connection before anything else.
BeginEdit(w) ==
    /\ pc[w] = "idle"
    /\ \E iid \in Ids, method \in Methods :
        req' = [req EXCEPT ![w] =
                   [NoReq EXCEPT !.handler = "edit_profile",
                                 !.method = method, !.iid = iid]]
    /\ pc' = [pc EXCEPT ![w] = "edit_select"]
    /\ conn' = [conn EXCEPT ![w] = TRUE]
    /\ lastReg' = NoRow
    /\ UNCHANGED <<members, seq, resp>>

\* The lookup of the member, then (POST) the form fields and their
\* emptiness check, or (GET) the form.
EditSelect(w) ==
    /\ pc[w] = "edit_select"
    /\ LET user == fetchone(SelectById(members, req[w].iid))
       IN  IF user = NoRow
           THEN Return(w, Ended("edit_profile"), RenderError(MsgNoUser), FALSE)
           ELSE IF req[w].method = "GET"
           THEN Return(w, Ended("edit_profile"),
                       RenderForm("edit_profile.html", user), FALSE)
           ELSE \E e \in RawEmails, f \in RawProfiles :
                    LET form == [req[w] EXCEPT
                                    !.email = strip(e),
                                    !.password = strip(f.password),
                                    !.phone = strip(f.phone),
                                    !.birthdate = strip(f.birthdate)]
                    IN  IF form.email = <<>> \/ form.password = <<>>
                        THEN Return(w, form, RenderError(MsgLoginMissing),
                                    FALSE)
                        ELSE /\ req' = [req EXCEPT ![w] = form]
                             /\ pc' = [pc EXCEPT ![w] = "edit_check"]
                             /\ UNCHANGED <<resp, conn>>
    /\ UNCHANGED <<members, seq, lastReg>>

\* The pre-check that no other member holds the email.
EditCheck(w) ==
    /\ pc[w] = "edit_check"
    /\ IF fetchone(SelectEmailUsedByOther(members, req[w].email,
                                          req[w].iid)) # NoRow
       THEN Return(w, Ended("edit_profile"), RenderError(MsgEmailInUse), FALSE)
       ELSE Goto(w, "edit_update")
    /\ UNCHANGED <<members, seq, lastReg>>

\* The UPDATE and its commit.  There is no try around it: an
\* IntegrityError leaves the handler before conn.close().
EditUpdate(w) ==
    /\ pc[w] = "edit_update"
    /\ LET r == Update(members, req[w].iid, req[w].email, req[w].password,
                       req[w].phone, req[w].birthdate)
       IN  /\ members' = r.rows
           /\ IF r.ok
              THEN Return(w, Ended("edit_profile"),
                          Redirect("welcome", req[w].iid), FALSE)
              ELSE Return(w, Ended("edit_profile"), Unhandled, TRUE)
    /\ lastReg' = IF lastReg.iid = req[w].iid THEN NoRow ELSE lastReg
    /\ UNCHANGED seq

(* ---------------------------- delete_user ------------------------------ *)

BeginDelete(w) ==
    /\ pc[w] = "idle"
    /\ \E iid \in Ids :
        req' = [req EXCEPT ![w] =
                   [NoReq EXCEPT !.handler = "delete_user", !.iid = iid]]
    /\ pc' = [pc EXCEPT ![w] = "delete_delete"]
    /\ conn' = [conn EXCEPT ![w] = TRUE]
    /\ lastReg' = NoRow
    /\ UNCHANGED <<members, seq, resp>>

DeleteDelete(w) ==
    /\ pc[w] = "delete_delete"
    /\ members' = Delete(members, req[w].iid)
    /\ Return(w, Ended("delete_user"), Redirect("index", 0), FALSE)
    /\ lastReg' = IF lastReg.iid = req[w].iid THEN NoRow ELSE lastReg
    /\ UNCHANGED seq

(* --------------------------- specifications ---------------------------- *)

\* The response is sent and the worker takes the next request; the
\* handler's frame, and with it a connection it left open, is dropped.
Finish(w) ==
    /\ pc[w] = "done"
    /\ pc' = [pc EXCEPT ![w] = "idle"]
    /\ req' = [req EXCEPT ![w] = NoReq]
    /\ resp' = [resp EXCEPT ![w] = NoResp]
    /\ conn' = [conn EXCEPT ![w] = FALSE]
    /\ UNCHANGED <<members, seq, lastReg>>

Begin(w) ==
    \/ BeginRegister(w)
    \/ BeginLogin(w)
    \/ BeginWelcome(w)
    \/ BeginEdit(w)
    \/ BeginDelete(w)

Step(w) ==
    \/ RegSelect(w)
    \/ RegInsert(w)
    \/ LoginSelect(w)
    \/ WelcomeSelect(w)
    \/ EditSelect(w)
    \/ EditCheck(w)
    \/ EditUpdate(w)
    \/ DeleteDelete(w)
    \/ Finish(w)

\* Threaded server: requests are taken whenever a worker is free.
Next == \E w \in Workers : Begin(w) \/ Step(w)

Spec == Init /\ [][Next]_vars

\* No other request is in progress.
Alone(w) == \A v \in Workers \ {w} : pc[v] = "idle"

\* Requests one at a time: a request is taken only when no other is in
\* progress.
SeqNext == \E w \in Workers : (Alone(w) /\ Begin(w)) \/ Step(w)

SeqSpec == Init /\ [][SeqNext]_vars

(* ------------------------------- claims -------------------------------- *)

\* Worker w executes the statement at `label` in this step.
Did(w, label) == pc[w] = label /\ pc'[w] # label

\* The members holding a username, an email, an iid.
WithUsername(username) == {m \in members : m.username = username}
WithEmail(email) == {m \in members : m.email = email}
WithId(iid) == {m \in members : m.iid = iid}

\* C1: in every reachable state, under any statement-level interleaving of
\* the requests, no two stored members share a username and no two share
\* an email.
C1_UniqueUsernameAndEmail ==
    \A m \in members : \A n \in members \ {m} :
        m.username # n.username /\ m.email # n.email

\* C1's case: two members are stored and the store has just refused a
\* write that would have given one of them the other's email.
C1_Witness ==
    /\ Cardinality(members) = 2
    /\ \E w \in Workers : pc[w] = "done" /\ resp[w] = Unhandled

\* C5: delete_user always redirects to home; it removes exactly the member
\* with the given id and leaves every other member as it was; with no such
\* member the store is unchanged; the same delete issued again changes
\* nothing more.
C5_Delete ==
    [][\A w \in Workers : Did(w, "delete_delete") =>
        /\ resp'[w] = Redirect("index", 0)
        /\ \A m \in members : m \in members' <=> m.iid # req[w].iid
        /\ members' \subseteq members
        /\ (WithId(req[w].iid) = {} => members' = members)
        /\ Delete(members', req[w].iid) = members'
        /\ seq' = seq]_vars

\* C5's case: a delete has removed one member of two and the other is
\* still stored.
C5_Witness ==
    \E w \in Workers :
        /\ pc[w] = "done"
        /\ resp[w] = Redirect("index", 0)
        /\ seq = 2
        /\ Cardinality(members) = 1

\* C6: a login with non-empty email and password is looked up; it returns
\* the welcome view with the username and id of the stored member that has
\* both the email and the password when there is one, the
\* incorrect-email-or-password error otherwise (wrong password and unknown
\* email alike), and never changes the store.
C6_Login ==
    [][\A w \in Workers :
        /\ (pc[w] = "idle" /\ req'[w].handler = "login"
                /\ req'[w].method = "POST") =>
            /\ (req'[w].email # <<>> /\ req'[w].password # <<>>)
                   <=> pc'[w] = "login_select"
            /\ members' = members
        /\ Did(w, "login_select") =>
            LET match == {m \in members : /\ m.email = req[w].email
                                          /\ m.password = req[w].password}
            IN  /\ match # {} =>
                    \E m \in match :
                        /\ resp'[w].kind = "render"
                        /\ resp'[w].view = "welcome.html"
                        /\ resp'[w].username = m.username
                        /\ resp'[w].iid = m.iid
                /\ match = {} =>
                    resp'[w] = RedirectError(MsgBadCredentials)
                /\ members' = members
                /\ seq' = seq]_vars

\* C6's case: a login with a registered email and a wrong password has
\* been answered with the credentials error.
C6_Witness ==
    \E w \in Workers : \E m \in members :
        /\ pc[w] = "done"
        /\ req[w].handler = "login"
        /\ resp[w] = RedirectError(MsgBadCredentials)
        /\ m.email = req[w].email
        /\ m.password # req[w].password

\* C7: every connection a handler opens is closed when its request ends.
C7_ConnectionClosed == \A w \in Workers : pc[w] = "done" => ~conn[w]

\* C8: no request ends with an unhandled store exception.
C8_NoUnhandledException ==
    \A w \in Workers : pc[w] = "done" => resp[w].kind # "exception"

\* C9: an edit_profile whose id has no stored member when its UPDATE
\* executes is answered with an error, and the redirect to welcome is
\* issued only when the member's row now holds the submitted values.
C9_EditOfDeleted ==
    [][\A w \in Workers : Did(w, "edit_update") =>
        /\ WithId(req[w].iid) = {} =>
              resp'[w].kind = "render" /\ resp'[w].view = "error.html"
        /\ resp'[w] = Redirect("welcome", req[w].iid) =>
              \E m \in members' :
                  /\ m.iid = req[w].iid
                  /\ m.email = req[w].email
                  /\ m.password = req[w].password
                  /\ m.phone = req[w].phone
                  /\ m.birthdate = req[w].birthdate]_vars

\* C10: a registration is answered with the email-in-use error only when
\* the submitted email is held by a stored member as its INSERT is
\* attempted.
C10_EmailInUseMeansEmail ==
    [][\A w \in Workers :
        (Did(w, "reg_insert") /\ resp'[w] = RedirectError(MsgEmailInUse))
            => WithEmail(req[w].email) # {}]_vars

(* ------------------- claims about requests one at a time --------------- *)

\* Worker w takes a register POST whose stripped username, email and
\* password are all non-empty.
ValidRegistration(w) ==
    /\ pc[w] = "idle"
    /\ req'[w].handler = "register"
    /\ req'[w].method = "POST"
    /\ req'[w].username # <<>>
    /\ req'[w].email # <<>>
    /\ req'[w].password # <<>>

\* C2: with requests one at a time, a registration with non-empty
\* username, email and password (as stripped) whose username and email no
\* stored member holds adds exactly one member, with those values and an
\* iid never handed out before, and redirects to login; a login with that
\* email and password taken next returns the welcome view with that
\* member's username and iid.
C2_RegisterThenLogin ==
    [][\A w \in Workers :
        /\ ValidRegistration(w) =>
              pc'[w] = "reg_select" /\ members' = members
        /\ (Did(w, "reg_select") /\ WithUsername(req[w].username) = {}) =>
              pc'[w] = "reg_insert" /\ members' = members
        /\ (Did(w, "reg_insert") /\ WithEmail(req[w].email) = {}) =>
              LET row == [iid |-> seq + 1,
                          username |-> req[w].username,
                          email |-> req[w].email,
                          password |-> req[w].password,
                          phone |-> req[w].phone,
                          birthdate |-> req[w].birthdate]
              IN  /\ WithUsername(req[w].username) = {}
                  /\ \A m \in members : m.iid <= seq
                  /\ row \notin members
                  /\ members' = members \cup {row}
                  /\ seq' = row.iid
                  /\ resp'[w] = Redirect("login", 0)
                  /\ lastReg' = row
        /\ (Did(w, "login_select") /\ lastReg # NoRow
                /\ req[w].email = lastReg.email
                /\ req[w].password = lastReg.password) =>
              /\ lastReg \in members
              /\ resp'[w].kind = "render"
              /\ resp'[w].view = "welcome.html"
              /\ resp'[w].username = lastReg.username
              /\ resp'[w].iid = lastReg.iid]_vars

\* C2's case: the second member has registered after the first was
\* deleted, and the login taken next has been answered with the welcome
\* view for it.
C2_Witness ==
    \E w \in Workers :
        /\ pc[w] = "done"
        /\ req[w].handler = "login"
        /\ lastReg # NoRow
        /\ lastReg.iid = 2
        /\ members = {lastReg}
        /\ resp[w] = RenderWelcome(lastReg)

\* C3: with requests one at a time, a registration with non-empty required
\* fields whose username is stored is rejected with the username-exists
\* error whatever its other fields; one with an unused username and a
\* stored email is rejected with the email-in-use error; either way the
\* members are exactly what they were.
C3_RegisterRejected ==
    [][\A w \in Workers :
        /\ ValidRegistration(w) =>
              pc'[w] = "reg_select" /\ members' = members
        /\ Did(w, "reg_select") =>
              /\ members' = members
              /\ IF WithUsername(req[w].username) # {}
                 THEN resp'[w] = RedirectError(MsgUsernameExists)
                 ELSE pc'[w] = "reg_insert"
        /\ Did(w, "reg_insert") => WithUsername(req[w].username) = {}
        /\ (Did(w, "reg_insert") /\ WithEmail(req[w].email) # {}) =>
              /\ resp'[w] = RedirectError(MsgEmailInUse)
              /\ members' = members
              /\ seq' = seq]_vars

\* C3's case: a registration has been rejected with the email-in-use error
\* and the one stored member is still the only one.
C3_Witness ==
    \E w \in Workers :
        /\ pc[w] = "done"
        /\ req[w].handler = "register"
        /\ resp[w] = RedirectError(MsgEmailInUse)
        /\ Cardinality(members) = 1

\* C4: with requests one at a time, an edit_profile submission for a
\* stored id with non-empty email and password (as stripped) is rejected
\* with the email-in-use error, no row changed, when a member with another
\* id holds the email; otherwise it sets that member's email, password,
\* phone and birthdate to the submitted values, leaves its iid, its
\* username and every other member alone, and redirects to welcome for
\* that id.
C4_EditProfile ==
    [][\A w \in Workers :
        /\ (Did(w, "edit_select") /\ WithId(req[w].iid) # {}
                /\ req[w].method = "POST"
                /\ req'[w].email # <<>> /\ req'[w].password # <<>>) =>
              pc'[w] = "edit_check" /\ members' = members
        /\ Did(w, "edit_check") =>
              /\ members' = members
              /\ IF \E m \in members : /\ m.email = req[w].email
                                       /\ m.iid # req[w].iid
                 THEN resp'[w] = RenderError(MsgEmailInUse)
                 ELSE pc'[w] = "edit_update"
        /\ Did(w, "edit_update") =>
              \E old \in members :
                  /\ old.iid = req[w].iid
                  /\ members' = (members \ {old}) \cup
                        {[iid |-> old.iid, username |-> old.username,
                          email |-> req[w].email,
                          password |-> req[w].password,
                          phone |-> req[w].phone,
                          birthdate |-> req[w].birthdate]}
                  /\ Cardinality(members') = Cardinality(members)
                  /\ seq' = seq
                  /\ resp'[w] = Redirect("welcome", req[w].iid)]_vars

\* C4's case: an edit of one of two members has been answered with the
\* redirect to welcome for its id.
C4_Witness ==
    \E w \in Workers : \E m \in members :
        /\ pc[w] = "done"
        /\ req[w].handler = "edit_profile"
        /\ resp[w] = Redirect("welcome", m.iid)
        /\ Cardinality(members) = 2

====
